---- MODULE Spec2Model ----
(***************************************************************************)
(* A model of the CoAP server of src/src/server.rs: the controller         *)
(* (CoAPServer: new / handle / stop / set_worker_num / drop), the reactor  *)
(* thread that handle() spawns (thread pool, mio event loop, UdpHandler),  *)
(* the workers of the thread pool and the peers that send datagrams.       *)
(*                                                                         *)
(* The caller of the controller is one thread (every method takes          *)
(* &mut self), so its calls are sequential; handle() blocks in rx.recv()   *)
(* and stop() blocks in join(), and these two blocking points are the      *)
(* caller's positions "handle_recv" and "stop_join" / "drop_join".         *)
(***************************************************************************)
EXTENDS Naturals, Integers, Sequences, FiniteSets, TLC

\* ----------------------------------------------------------------- bounds
\* The number of reactor threads one controller spawns in a behaviour.
MaxRuns == 2
\* The number of datagrams the peers send in a behaviour.
MaxDgrams == 2

\* ------------------------------------------------------ program constants
DEFAULT_WORKER_NUM == 4
\* RingBuf::new(1500): the capacity of the buffer one datagram is read into.
BufCap == 1500

\* ------------------------------------------------------------- value sets
None == 0
Runs == 1..MaxRuns
Peers == {"p1", "p2"}
\* The peer that sends the n-th datagram: the peers take turns.
SrcOf(n) == IF n % 2 = 1 THEN "p1" ELSE "p2"
\* The bytes of the n-th datagram: <<version, message id>> when it is a
\* well-formed message, and <<0>> (too short, wrong version) when it is not.
BytesOf(n, wellFormed) == IF wellFormed THEN <<1, n>> ELSE <<0>>
\* The arguments set_worker_num is called with.
WorkerNums == {1}

VARIABLES
    ctl,            \* "alive" | "dropped": the CoAPServer value
    pc,             \* the caller: "idle" | "handle_recv" | "stop_join" | "drop_join"
    ret,            \* the last new / handle / stop that returned: [op, res]
    event_sender,   \* CoAPServer.event_sender: None or the run whose Sender it is
    event_thread,   \* CoAPServer.event_thread: None or the run whose JoinHandle it is
    worker_num,     \* CoAPServer.worker_num
    joinee,         \* the thread the caller is joining (stop), or None
    runs,           \* the number of reactor threads spawned so far
    reactor,        \* run -> "unborn" | "spawned" | "registered" | "running" |
                    \*        "exited" | "panicked"
    captured,       \* run -> the worker_num its closure captured
    sockClones,     \* the runs whose try_clone()d socket handle is open
    rx,             \* the one-shot channel of the handle() in flight
    notified,       \* run -> a shutdown token is in the event loop's channel
    poolSize,       \* run -> the number of workers of its ThreadPool (0: no pool)
    queue,          \* run -> the jobs submitted to its pool, not yet taken
    busy,           \* run -> the work units whose handler a worker of its pool runs
    sockbuf,        \* the datagrams in the bound socket's receive queue
    sent,           \* the number of datagrams the peers have sent
    wire,           \* datagram -> the bytes it was sent with (<<>>: not sent)
    handled,        \* the invocations of the handler so far
    replies         \* the replies the handler has sent

ctlVars == <<ctl, pc, ret, event_sender, event_thread, worker_num, joinee>>
thrVars == <<runs, reactor, captured, sockClones, rx, notified>>
poolVars == <<poolSize, queue, busy>>
netVars == <<sockbuf, sent, wire, handled, replies>>
vars == <<ctl, pc, ret, event_sender, event_thread, worker_num, joinee,
          runs, reactor, captured, sockClones, rx, notified,
          poolSize, queue, busy, sockbuf, sent, wire, handled, replies>>

Alive == {"spawned", "registered", "running"}
\* The thread has ended: run() returned, or a panic unwound it.
Dead == {"exited", "panicked"}

\* The open handles of the bound socket: the controller's and the clones.
OpenHandles == (IF ctl = "alive" THEN 1 ELSE 0) + Cardinality(sockClones)

\* recv_from into a buffer of BufCap bytes keeps at most BufCap bytes.
Truncate(b) == IF Len(b) > BufCap THEN SubSeq(b, 1, BufCap) ELSE b

\* Packet::from_bytes: a message needs its header and version 1.
from_bytes(b) ==
    IF Len(b) >= 2 /\ b[1] = 1
    THEN [ok |-> TRUE, packet |-> [version |-> b[1], opt |-> b[2]]]
    ELSE [ok |-> FALSE, packet |-> [version |-> 0, opt |-> 0]]

\* The handler of the test: it replies with the option of the request.
request_handler(req, resp) == [to |-> resp, payload |-> req.opt]

\* The record of a call that returns now.
Returned(op, res) == [op |-> op, res |-> res]

Init ==
    /\ ctl = "alive"
    /\ pc = "idle"
    /\ ret = Returned("new", "Ok")
    /\ event_sender = None
    /\ event_thread = None
    /\ worker_num = DEFAULT_WORKER_NUM
    /\ joinee = None
    /\ runs = 0
    /\ reactor = [r \in Runs |-> "unborn"]
    /\ captured = [r \in Runs |-> 0]
    /\ sockClones = {}
    /\ rx = "none"
    /\ notified = [r \in Runs |-> FALSE]
    /\ poolSize = [r \in Runs |-> 0]
    /\ queue = [r \in Runs |-> <<>>]
    /\ busy = [r \in Runs |-> {}]
    /\ sockbuf = <<>>
    /\ sent = 0
    /\ wire = [n \in 1..MaxDgrams |-> <<>>]
    /\ handled = {}
    /\ replies = {}

\* ------------------------------------------------------------ controller

\* CoAPServer::set_worker_num
SetWorkerNum(n) ==
    /\ ctl = "alive" /\ pc = "idle"
    /\ worker_num' = n
    /\ UNCHANGED <<ctl, pc, ret, event_sender, event_thread, joinee>>
    /\ UNCHANGED <<thrVars, poolVars, netVars>>

\* A handle that answers AnotherHandlerIsRunning but has spawned a thread.
HandleRejected_spawns ==
    /\ ctl = "alive" /\ pc = "idle"
    /\ event_sender # None
    /\ runs < MaxRuns
    /\ runs' = runs + 1
    /\ reactor' = [reactor EXCEPT ![runs + 1] = "spawned"]
    /\ captured' = [captured EXCEPT ![runs + 1] = worker_num]
    /\ sockClones' = sockClones \cup {runs + 1}
    /\ ret' = Returned("handle", "AnotherHandlerIsRunning")
    /\ UNCHANGED <<ctl, pc, event_sender, event_thread, worker_num, joinee, rx, notified>>
    /\ UNCHANGED <<poolVars, netVars>>

\* CoAPServer::handle, Some(_) arm: a run is active.
HandleRejected ==
    /\ ctl = "alive" /\ pc = "idle"
    /\ event_sender # None
    /\ ret' = Returned("handle", "AnotherHandlerIsRunning")
    /\ UNCHANGED <<ctl, pc, event_sender, event_thread, worker_num, joinee>>
    /\ UNCHANGED <<thrVars, poolVars, netVars>>

\* CoAPServer::handle, None arm, try_clone() fails.
HandleCloneFails ==
    /\ ctl = "alive" /\ pc = "idle"
    /\ event_sender = None
    /\ ret' = Returned("handle", "NetworkError")
    /\ UNCHANGED <<ctl, pc, event_sender, event_thread, worker_num, joinee>>
    /\ UNCHANGED <<thrVars, poolVars, netVars>>

\* A handle whose thread makes its pool with the default worker count.
HandleSpawn_default ==
    /\ ctl = "alive" /\ pc = "idle"
    /\ event_sender = None
    /\ runs < MaxRuns
    /\ runs' = runs + 1
    /\ reactor' = [reactor EXCEPT ![runs + 1] = "spawned"]
    /\ captured' = [captured EXCEPT ![runs + 1] = DEFAULT_WORKER_NUM]
    /\ sockClones' = sockClones \cup {runs + 1}
    /\ rx' = "empty"
    /\ pc' = "handle_recv"
    /\ UNCHANGED <<ctl, ret, event_sender, event_thread, worker_num, joinee, notified>>
    /\ UNCHANGED <<poolVars, netVars>>

\* CoAPServer::handle, None arm, up to rx.recv(): the socket is cloned and the
\* reactor thread is spawned with the channel's tx and the worker_num of now.
HandleSpawn ==
    /\ ctl = "alive" /\ pc = "idle"
    /\ event_sender = None
    /\ runs < MaxRuns
    /\ runs' = runs + 1
    /\ reactor' = [reactor EXCEPT ![runs + 1] = "spawned"]
    /\ captured' = [captured EXCEPT ![runs + 1] = worker_num]
    /\ sockClones' = sockClones \cup {runs + 1}
    /\ rx' = "empty"
    /\ pc' = "handle_recv"
    /\ UNCHANGED <<ctl, ret, event_sender, event_thread, worker_num, joinee, notified>>
    /\ UNCHANGED <<poolVars, netVars>>

\* A handle that returns Ok without installing the sender and the thread.
HandleReturn_forgets ==
    /\ pc = "handle_recv"
    /\ rx \in {"sent", "closed"}
    /\ ret' = Returned("handle", IF rx = "sent" THEN "Ok" ELSE "EventLoopError")
    /\ rx' = "none"
    /\ pc' = "idle"
    /\ UNCHANGED <<ctl, event_sender, event_thread, worker_num, joinee>>
    /\ UNCHANGED <<runs, reactor, captured, sockClones, notified>>
    /\ UNCHANGED <<poolVars, netVars>>

\* A handle that does not wait for the signal: it returns Ok as soon as the
\* thread is spawned, unless the channel is closed.
HandleReturn_nowait ==
    /\ pc = "handle_recv"
    /\ IF rx # "closed"
       THEN /\ event_sender' = runs
            /\ event_thread' = runs
            /\ ret' = Returned("handle", "Ok")
       ELSE /\ UNCHANGED <<event_sender, event_thread>>
            /\ ret' = Returned("handle", "EventLoopError")
    /\ rx' = "none"
    /\ pc' = "idle"
    /\ UNCHANGED <<ctl, worker_num, joinee, runs, reactor, captured, sockClones, notified>>
    /\ UNCHANGED <<poolVars, netVars>>

\* A handle that installs the sender and the thread whatever recv() answers.
HandleReturn_installs ==
    /\ pc = "handle_recv"
    /\ rx \in {"sent", "closed"}
    /\ event_sender' = runs
    /\ event_thread' = runs
    /\ ret' = Returned("handle", IF rx = "sent" THEN "Ok" ELSE "EventLoopError")
    /\ rx' = "none"
    /\ pc' = "idle"
    /\ UNCHANGED <<ctl, worker_num, joinee, runs, reactor, captured, sockClones, notified>>
    /\ UNCHANGED <<poolVars, netVars>>

\* CoAPServer::handle, rx.recv() returns.
HandleReturn ==
    /\ pc = "handle_recv"
    /\ rx \in {"sent", "closed"}
    /\ IF rx = "sent"
       THEN /\ event_sender' = runs
            /\ event_thread' = runs
            /\ ret' = Returned("handle", "Ok")
       ELSE /\ UNCHANGED <<event_sender, event_thread>>
            /\ ret' = Returned("handle", "EventLoopError")
    /\ rx' = "none"
    /\ pc' = "idle"
    /\ UNCHANGED <<ctl, worker_num, joinee, runs, reactor, captured, sockClones, notified>>
    /\ UNCHANGED <<poolVars, netVars>>

\* A stop that, without a sender, sends the token to the last run's loop.
StopBody_stale(joinPc, doneCtl, doneRet) ==
    /\ event_sender' = None
    /\ event_thread' = None
    /\ LET s == IF event_sender # None THEN event_sender ELSE runs
       IN  notified' = IF s # None THEN [notified EXCEPT ![s] = TRUE] ELSE notified
    /\ IF event_thread # None
       THEN /\ pc' = joinPc
            /\ joinee' = event_thread
            /\ UNCHANGED <<ctl, ret>>
       ELSE /\ ctl' = doneCtl
            /\ ret' = doneRet
            /\ UNCHANGED <<pc, joinee>>

\* A stop that sends the token and joins but leaves the sender in place.
StopBody_keeps(joinPc, doneCtl, doneRet) ==
    /\ UNCHANGED event_sender
    /\ IF event_sender # None
       THEN /\ notified' = [notified EXCEPT ![event_sender] = TRUE]
            /\ event_thread' = None
            /\ IF event_thread # None
               THEN /\ pc' = joinPc
                    /\ joinee' = event_thread
                    /\ UNCHANGED <<ctl, ret>>
               ELSE /\ ctl' = doneCtl
                    /\ ret' = doneRet
                    /\ UNCHANGED <<pc, joinee>>
       ELSE /\ ctl' = doneCtl
            /\ ret' = doneRet
            /\ UNCHANGED <<pc, joinee, event_thread, notified>>

\* A stop that sends the token and takes the thread but does not join it.
StopBody_nojoin(joinPc, doneCtl, doneRet) ==
    /\ event_sender' = None
    /\ event_thread' = None
    /\ notified' = IF event_sender # None
                   THEN [notified EXCEPT ![event_sender] = TRUE] ELSE notified
    /\ ctl' = doneCtl
    /\ ret' = doneRet
    /\ UNCHANGED <<pc, joinee>>

\* CoAPServer::stop up to join(): take the sender; with Some(sender), send
\* the token and take the thread. The caller then waits in join() at joinPc;
\* without a sender (or a thread) the call is over, with doneCtl and doneRet.
StopBody(joinPc, doneCtl, doneRet) ==
    /\ event_sender' = None
    /\ IF event_sender # None
       THEN /\ notified' = [notified EXCEPT ![event_sender] = TRUE]
            /\ event_thread' = None
            /\ IF event_thread # None
               THEN /\ pc' = joinPc
                    /\ joinee' = event_thread
                    /\ UNCHANGED <<ctl, ret>>
               ELSE /\ ctl' = doneCtl
                    /\ ret' = doneRet
                    /\ UNCHANGED <<pc, joinee>>
       ELSE /\ ctl' = doneCtl
            /\ ret' = doneRet
            /\ UNCHANGED <<pc, joinee, event_thread, notified>>

\* CoAPServer::stop is called.
StopCall ==
    /\ ctl = "alive" /\ pc = "idle"
    /\ StopBody("stop_join", "alive", Returned("stop", "Ok"))
    /\ UNCHANGED <<worker_num, runs, reactor, captured, sockClones, rx>>
    /\ UNCHANGED <<poolVars, netVars>>

\* A join that returns while the thread still runs.
StopReturn_nojoin ==
    /\ pc = "stop_join"
    /\ pc' = "idle"
    /\ ret' = Returned("stop", "Ok")
    /\ joinee' = None
    /\ UNCHANGED <<ctl, event_sender, event_thread, worker_num>>
    /\ UNCHANGED <<thrVars, poolVars, netVars>>

\* A stop that also waits until the pool of the joined run is idle.
StopReturn_drains ==
    /\ pc = "stop_join"
    /\ reactor[joinee] \in Dead
    /\ busy[joinee] = {} /\ queue[joinee] = <<>>
    /\ pc' = "idle"
    /\ ret' = Returned("stop", "Ok")
    /\ joinee' = None
    /\ UNCHANGED <<ctl, event_sender, event_thread, worker_num>>
    /\ UNCHANGED <<thrVars, poolVars, netVars>>

\* g.join() returns in stop: the reactor thread has finished.
StopReturn ==
    /\ pc = "stop_join"
    /\ reactor[joinee] \in Dead
    /\ pc' = "idle"
    /\ ret' = Returned("stop", "Ok")
    /\ joinee' = None
    /\ UNCHANGED <<ctl, event_sender, event_thread, worker_num>>
    /\ UNCHANGED <<thrVars, poolVars, netVars>>

\* A drop that drops the fields without calling stop().
DropCall_nostop ==
    /\ ctl = "alive" /\ pc = "idle"
    /\ ctl' = "dropped"
    /\ UNCHANGED <<pc, ret, event_sender, event_thread, worker_num, joinee>>
    /\ UNCHANGED <<thrVars, poolVars, netVars>>

\* Drop for CoAPServer: stop(), then the fields (the socket) are dropped.
DropCall ==
    /\ ctl = "alive" /\ pc = "idle"
    /\ StopBody("drop_join", "dropped", ret)
    /\ UNCHANGED <<worker_num, runs, reactor, captured, sockClones, rx>>
    /\ UNCHANGED <<poolVars, netVars>>

\* g.join() returns in the stop() of drop; the controller is gone.
DropReturn ==
    /\ pc = "drop_join"
    /\ reactor[joinee] \in Dead
    /\ pc' = "idle"
    /\ ctl' = "dropped"
    /\ joinee' = None
    /\ UNCHANGED <<ret, event_sender, event_thread, worker_num>>
    /\ UNCHANGED <<thrVars, poolVars, netVars>>

\* ------------------------------------------------------- reactor thread

\* The thread's closure up to register(): ThreadPool::new(worker_num), then
\* EventLoop::new() and register(), both unwrapped (ok: both succeed). A
\* panic unwinds the thread: tx and the socket clone are dropped.
ReactorSetup(r, ok) ==
    /\ reactor[r] = "spawned"
    /\ IF ok
       THEN /\ poolSize' = [poolSize EXCEPT ![r] = captured[r]]
            /\ reactor' = [reactor EXCEPT ![r] = "registered"]
            /\ UNCHANGED <<rx, sockClones>>
       ELSE /\ reactor' = [reactor EXCEPT ![r] = "panicked"]
            /\ rx' = "closed"
            /\ sockClones' = sockClones \ {r}
            /\ UNCHANGED poolSize
    /\ UNCHANGED <<runs, captured, notified, queue, busy>>
    /\ UNCHANGED <<ctlVars, netVars>>

\* tx.send(event_loop.channel()), then event_loop.run() is entered.
ReactorSignal(r) ==
    /\ reactor[r] = "registered"
    /\ rx' = "sent"
    /\ reactor' = [reactor EXCEPT ![r] = "running"]
    /\ UNCHANGED <<runs, captured, sockClones, notified>>
    /\ UNCHANGED <<ctlVars, poolVars, netVars>>

\* A ready() whose submission waits for a free worker.
ReactorReady_blocking(r) ==
    /\ reactor[r] = "running"
    /\ sockbuf # <<>>
    /\ Cardinality(busy[r]) < poolSize[r]
    /\ queue' = [queue EXCEPT ![r] =
                   Append(@, [id |-> Head(sockbuf).id,
                              by |-> r,
                              src |-> Head(sockbuf).src,
                              buf |-> Truncate(Head(sockbuf).bytes)])]
    /\ sockbuf' = Tail(sockbuf)
    /\ UNCHANGED <<poolSize, busy, sent, wire, handled, replies>>
    /\ UNCHANGED <<ctlVars, thrVars>>

\* A ready() that submits the job of its datagram twice.
ReactorReady_twice(r) ==
    /\ reactor[r] = "running"
    /\ sockbuf # <<>>
    /\ LET job == [id |-> Head(sockbuf).id,
                   by |-> r,
                   src |-> Head(sockbuf).src,
                   buf |-> Truncate(Head(sockbuf).bytes)]
       IN  queue' = [queue EXCEPT ![r] = Append(Append(@, job), job)]
    /\ sockbuf' = Tail(sockbuf)
    /\ UNCHANGED <<poolSize, busy, sent, wire, handled, replies>>
    /\ UNCHANGED <<ctlVars, thrVars>>

\* A ready() that gives the job the source of the newest datagram of the
\* socket, not of the one it read.
ReactorReady_othersrc(r) ==
    /\ reactor[r] = "running"
    /\ sockbuf # <<>>
    /\ queue' = [queue EXCEPT ![r] =
                   Append(@, [id |-> Head(sockbuf).id,
                              by |-> r,
                              src |-> sockbuf[Len(sockbuf)].src,
                              buf |-> Truncate(Head(sockbuf).bytes)])]
    /\ sockbuf' = Tail(sockbuf)
    /\ UNCHANGED <<poolSize, busy, sent, wire, handled, replies>>
    /\ UNCHANGED <<ctlVars, thrVars>>

\* UdpHandler::ready, recv_from gives Ok(Some(src)): the buffer and the
\* source go to the pool as one job (by: the run whose reactor read it).
ReactorReady(r) ==
    /\ reactor[r] = "running"
    /\ sockbuf # <<>>
    /\ queue' = [queue EXCEPT ![r] =
                   Append(@, [id |-> Head(sockbuf).id,
                              by |-> r,
                              src |-> Head(sockbuf).src,
                              buf |-> Truncate(Head(sockbuf).bytes)])]
    /\ sockbuf' = Tail(sockbuf)
    /\ UNCHANGED <<poolSize, busy, sent, wire, handled, replies>>
    /\ UNCHANGED <<ctlVars, thrVars>>

\* UdpHandler::ready, recv_from gives Ok(None) (readiness without a
\* datagram) or Err(_): the `_` arm panics and the thread unwinds.
ReactorReadyPanic(r, outcome) ==
    /\ reactor[r] = "running"
    /\ outcome = "None" => sockbuf = <<>>
    /\ reactor' = [reactor EXCEPT ![r] = "panicked"]
    /\ sockClones' = sockClones \ {r}
    /\ UNCHANGED <<runs, captured, rx, notified>>
    /\ UNCHANGED <<ctlVars, poolVars, netVars>>

\* UdpHandler::notify: event_loop.shutdown(); run() returns and the thread
\* ends, dropping the UdpHandler (the socket clone and the pool's sender).
ReactorNotify(r) ==
    /\ reactor[r] = "running"
    /\ notified[r]
    /\ notified' = [notified EXCEPT ![r] = FALSE]
    /\ reactor' = [reactor EXCEPT ![r] = "exited"]
    /\ sockClones' = sockClones \ {r}
    /\ UNCHANGED <<runs, captured, rx>>
    /\ UNCHANGED <<ctlVars, poolVars, netVars>>

\* ------------------------------------------------------------- workers

\* The number of times the handler has been invoked for datagram id.
Invocations(id) == Cardinality({h \in handled : h.id = id})

\* A pool that runs a queued job at once, with a thread more than its size
\* if it has to.
WorkerExec_nolimit(r, clientOk) ==
    /\ poolSize[r] > 0
    /\ queue[r] # <<>>
    /\ queue' = [queue EXCEPT ![r] = Tail(@)]
    /\ LET job == Head(queue[r])
           dec == from_bytes(job.buf)
       IN  IF dec.ok /\ clientOk
           THEN /\ busy' = [busy EXCEPT ![r] = @ \cup {job}]
                /\ handled' = handled \cup
                      {[id |-> job.id, nth |-> Invocations(job.id) + 1,
                        by |-> job.by, run |-> r, buf |-> job.buf,
                        peer |-> job.src, msg |-> dec.packet]}
           ELSE UNCHANGED <<busy, handled>>
    /\ UNCHANGED <<poolSize, sockbuf, sent, wire, replies>>
    /\ UNCHANGED <<ctlVars, thrVars>>

\* A job that calls the handler whatever from_bytes answers.
WorkerExec_anyway(r, clientOk) ==
    /\ Cardinality(busy[r]) < poolSize[r]
    /\ queue[r] # <<>>
    /\ queue' = [queue EXCEPT ![r] = Tail(@)]
    /\ LET job == Head(queue[r])
           dec == from_bytes(job.buf)
       IN  IF clientOk
           THEN /\ busy' = [busy EXCEPT ![r] = @ \cup {job}]
                /\ handled' = handled \cup
                      {[id |-> job.id, nth |-> Invocations(job.id) + 1,
                        by |-> job.by, run |-> r, buf |-> job.buf,
                        peer |-> job.src, msg |-> dec.packet]}
           ELSE UNCHANGED <<busy, handled>>
    /\ UNCHANGED <<poolSize, sockbuf, sent, wire, replies>>
    /\ UNCHANGED <<ctlVars, thrVars>>

\* An idle worker of pool r takes the next job and runs its closure up to the
\* call of the handler: from_bytes, CoAPClient::new(src).unwrap(), handle.
\* clientOk: whether CoAPClient::new succeeds (its panic ends the job; the
\* pool replaces the worker).
WorkerExec(r, clientOk) ==
    /\ Cardinality(busy[r]) < poolSize[r]
    /\ queue[r] # <<>>
    /\ queue' = [queue EXCEPT ![r] = Tail(@)]
    /\ LET job == Head(queue[r])
           dec == from_bytes(job.buf)
       IN  IF dec.ok /\ clientOk
           THEN /\ busy' = [busy EXCEPT ![r] = @ \cup {job}]
                /\ handled' = handled \cup
                      {[id |-> job.id, nth |-> Invocations(job.id) + 1,
                        by |-> job.by, run |-> r, buf |-> job.buf,
                        peer |-> job.src, msg |-> dec.packet]}
           ELSE UNCHANGED <<busy, handled>>
    /\ UNCHANGED <<poolSize, sockbuf, sent, wire, replies>>
    /\ UNCHANGED <<ctlVars, thrVars>>

\* The handler returns in a worker of pool r: it has sent its reply through
\* the responder, and the worker is idle again.
HandlerReturn(r, job) ==
    /\ job \in busy[r]
    /\ replies' = replies \cup
          {request_handler(from_bytes(job.buf).packet, job.src)}
    /\ busy' = [busy EXCEPT ![r] = @ \ {job}]
    /\ UNCHANGED <<poolSize, queue, sockbuf, sent, wire, handled>>
    /\ UNCHANGED <<ctlVars, thrVars>>

\* ---------------------------------------------------------- environment

\* A peer sends a datagram to the bound address.
PeerSend(wellFormed) ==
    /\ sent < MaxDgrams
    /\ OpenHandles > 0
    /\ sent' = sent + 1
    /\ wire' = [wire EXCEPT ![sent + 1] = BytesOf(sent + 1, wellFormed)]
    /\ sockbuf' = Append(sockbuf, [id |-> sent + 1, src |-> SrcOf(sent + 1),
                                   bytes |-> BytesOf(sent + 1, wellFormed)])
    /\ UNCHANGED <<handled, replies>>
    /\ UNCHANGED <<ctlVars, thrVars, poolVars>>

\* CoAPServer::new on the same address by another controller, in this state:
\* UdpSocket::bound fails while a handle of the first socket is open.
NewResult == IF OpenHandles = 0 THEN "Ok" ELSE "AddrInUse"

\* The outcomes of recv_from that make ready() panic.
RecvFaults == {"None", "Err"}

\* The steps of the system, with recv_from failing in the ways of faults.
NextWith(faults) ==
    \/ \E n \in WorkerNums : SetWorkerNum(n)
    \/ HandleRejected
    \/ HandleCloneFails
    \/ HandleSpawn
    \/ HandleReturn
    \/ StopCall
    \/ StopReturn
    \/ DropCall
    \/ DropReturn
    \/ \E r \in Runs, ok \in BOOLEAN : ReactorSetup(r, ok)
    \/ \E r \in Runs : ReactorSignal(r)
    \/ \E r \in Runs : ReactorReady(r)
    \/ \E r \in Runs, o \in faults : ReactorReadyPanic(r, o)
    \/ \E r \in Runs : ReactorNotify(r)
    \/ \E r \in Runs, c \in BOOLEAN : WorkerExec(r, c)
    \/ \E r \in Runs : \E job \in busy[r] : HandlerReturn(r, job)
    \/ \E wf \in BOOLEAN : PeerSend(wf)

Next == NextWith(RecvFaults)

Spec == Init /\ [][Next]_vars

\* The threads are scheduled fairly: the reactor threads, the workers and the
\* caller blocked in recv() or join() take the steps they can take. The
\* calls of the API, the peers and the failures of the socket are not forced.
Fairness ==
    /\ WF_vars(\E r \in Runs, ok \in BOOLEAN : ReactorSetup(r, ok))
    /\ WF_vars(\E r \in Runs : ReactorSignal(r))
    /\ WF_vars(\E r \in Runs : ReactorReady(r))
    /\ WF_vars(\E r \in Runs : ReactorNotify(r))
    /\ WF_vars(\E r \in Runs, c \in BOOLEAN : WorkerExec(r, c))
    /\ WF_vars(\E r \in Runs : \E job \in busy[r] : HandlerReturn(r, job))
    /\ WF_vars(HandleReturn)
    /\ WF_vars(StopReturn)
    /\ WF_vars(DropReturn)

FairSpec == Spec /\ Fairness

\* Only the reactor threads and the caller blocked in recv() or join() are
\* scheduled fairly: a worker may stay in a handler for ever, and a queued job
\* may never be taken.
ReactorFairness ==
    /\ WF_vars(\E r \in Runs, ok \in BOOLEAN : ReactorSetup(r, ok))
    /\ WF_vars(\E r \in Runs : ReactorSignal(r))
    /\ WF_vars(\E r \in Runs : ReactorReady(r))
    /\ WF_vars(\E r \in Runs : ReactorNotify(r))
    /\ WF_vars(HandleReturn)
    /\ WF_vars(StopReturn)
    /\ WF_vars(DropReturn)

FairReactorSpec == Spec /\ ReactorFairness

\* Fair scheduling, and a socket whose recv_from never fails with an error:
\* a readiness event finds a datagram, or none (Ok(None))
FairSpecNoRecvErr == Init /\ [][NextWith({"None"})]_vars /\ Fairness

\* ------------------------------------------------------------- claims

AliveRuns == {r \in Runs : reactor[r] \in Alive}

\* A handle() returns in this step, with result res.
HandleReturns(res) == ret' # ret /\ ret'.op = "handle" /\ ret'.res = res
\* A stop() returns in this step.
StopReturns == ret' # ret /\ ret'.op = "stop"

\* C1: while the controller holds a running-handle, no step spawns a thread,
\* creates a pool or clones the socket, a handle() that returns returns
\* AnotherHandlerIsRunning, and that call changes nothing but its result:
\* the sender, the thread, the worker count, the reactors, the pools and the
\* socket are as before.
C1_RejectedStartNoEffect ==
    [][(ctl = "alive" /\ pc = "idle" /\ event_sender # None) =>
          /\ runs' = runs
          /\ poolSize' = poolSize
          /\ sockClones' \subseteq sockClones
          /\ \A res \in {"Ok", "NetworkError", "EventLoopError"} : ~HandleReturns(res)
          /\ HandleReturns("AnotherHandlerIsRunning") =>
                UNCHANGED <<ctl, pc, event_sender, event_thread, worker_num, joinee,
                            thrVars, poolVars, netVars>>]_vars

C1_Witness ==
    /\ ret = Returned("handle", "AnotherHandlerIsRunning")
    /\ event_sender # None
    /\ reactor[event_sender] = "running"
    /\ queue[event_sender] # <<>>

\* C2: at most one reactor thread of the controller is alive.
C2_AtMostOneRun == Cardinality(AliveRuns) <= 1

C2_Witness ==
    /\ runs = 2
    /\ reactor[1] \in Dead
    /\ reactor[2] = "running"
    /\ event_sender = 2

\* C3: a stop() on a controller without a running-handle returns at once and
\* changes no field of the controller, no thread, no pool and no socket.
C3_StopIdempotent ==
    [][(ctl = "alive" /\ pc = "idle" /\ event_sender = None /\ StopReturns) =>
          UNCHANGED <<ctl, pc, event_sender, event_thread, worker_num, joinee,
                      thrVars, poolVars, netVars>>]_vars

\* A stop() has returned on a controller whose run was stopped before: the
\* last call was a stop, no handle is held and the one run is over.
C3_Witness ==
    /\ ret = Returned("stop", "Ok")
    /\ ctl = "alive" /\ pc = "idle"
    /\ event_sender = None /\ event_thread = None
    /\ runs = 1 /\ reactor[1] = "exited"

\* C4: a handle() returns Ok only from rx.recv() with the signal received,
\* which the reactor sent after it had made its pool and registered the
\* socket; and only that step installs a sender and a thread, those of the
\* thread this call spawned.
C4_StartOkAfterSignal ==
    [][/\ HandleReturns("Ok") =>
            /\ pc = "handle_recv" /\ rx = "sent"
            /\ reactor[runs] \in {"running", "exited", "panicked"}
            /\ poolSize[runs] >= 1
            /\ event_sender' = runs /\ event_thread' = runs
       /\ (event_sender' # event_sender /\ event_sender' # None) =>
            HandleReturns("Ok") \/ (ret' = ret /\ ret.op = "handle" /\ ret.res = "Ok"
                                      /\ pc = "handle_recv" /\ rx = "sent")
       /\ (event_thread' # event_thread /\ event_thread' # None) =>
            event_thread' = event_sender']_vars

C4_Witness ==
    /\ ret = Returned("handle", "Ok")
    /\ pc = "idle"
    /\ event_sender # None /\ event_thread = event_sender
    /\ reactor[event_sender] = "running"

\* Datagram n is in the socket's receive queue.
InSockbuf(n) == \E i \in 1..Len(sockbuf) : sockbuf[i].id = n
WellFormed(n) == from_bytes(wire[n]).ok
\* start has returned Ok and no stop or drop has been called since.
Started == ctl = "alive" /\ pc = "idle" /\ event_sender # None

\* A worker has taken the job of datagram n and run it: the handler was
\* invoked, unless CoAPClient::new failed.
Executed(n) ==
    /\ n <= sent /\ ~InSockbuf(n)
    /\ \A r \in Runs : \A i \in 1..Len(queue[r]) : queue[r][i].id # n

\* C5: a well-formed datagram in the socket's queue of a started controller
\* is eventually read, dispatched and run by a worker, which invokes the
\* handler (unless CoAPClient::new fails); or a stop or a drop is called
\* first.
C5_NoRaceWindow ==
    \A n \in 1..MaxDgrams :
        (InSockbuf(n) /\ WellFormed(n) /\ Started)
            ~> (Invocations(n) > 0 \/ Executed(n) \/ event_sender = None)

\* The join of stop() returns in this step.
StopJoined == pc = "stop_join" /\ pc' = "idle"

\* C6, as claimed: when the join of stop() returns, the reactor thread has
\* exited and CoAPServer::new on the same address succeeds.
C6_RebindAfterStop ==
    [][StopJoined => (reactor'[joinee] \in Dead /\ NewResult' = "Ok")]_vars

\* C6, amended: when the join of stop() returns, the reactor thread has
\* exited and its clone of the socket is closed, and no clone is open; the
\* controller's own socket is still open, so that CoAPServer::new on the same
\* address fails with address-in-use; it succeeds once the controller has
\* been dropped.
C6_CleanTeardown ==
    /\ [][StopJoined =>
            /\ reactor'[joinee] \in Dead
            /\ sockClones' = {}
            /\ OpenHandles' = 1
            /\ NewResult' = "AddrInUse"]_vars
    /\ [](ctl = "dropped" => NewResult = "Ok")

C6_Witness ==
    /\ ret = Returned("stop", "Ok")
    /\ ctl = "alive" /\ pc = "idle"
    /\ runs = 1 /\ reactor[1] = "exited"
    /\ handled # {}
    /\ NewResult = "AddrInUse"

\* C7: when the join of stop() returns the controller holds no sender and no
\* thread; a handle() on a controller without a sender never answers
\* AnotherHandlerIsRunning; every spawn makes a new thread, whose pool does
\* not exist before; and a job is queued in, taken by and handled by the
\* pool of the run whose reactor read it.
C7_RestartFreshPool ==
    /\ [][StopJoined => (event_sender' = None /\ event_thread' = None)]_vars
    /\ [][event_sender = None => ~HandleReturns("AnotherHandlerIsRunning")]_vars
    /\ [][runs' # runs =>
            /\ runs' = runs + 1
            /\ reactor[runs'] = "unborn" /\ reactor'[runs'] = "spawned"
            /\ poolSize[runs'] = 0 /\ queue[runs'] = <<>> /\ busy[runs'] = {}]_vars
    /\ [](/\ \A h \in handled : h.run = h.by
          /\ \A r \in Runs :
                /\ \A job \in busy[r] : job.by = r
                /\ \A i \in 1..Len(queue[r]) : queue[r][i].by = r)

\* The second run is started after the first was stopped, and each run has
\* handled a datagram in its own pool.
C7_Witness ==
    /\ runs = 2 /\ reactor[1] = "exited" /\ reactor[2] = "running"
    /\ event_sender = 2 /\ ret = Returned("handle", "Ok")
    /\ \E h1, h2 \in handled : h1.run = 1 /\ h2.run = 2

\* C8: the handler is invoked only for a datagram whose bytes decode, once,
\* with the decoded message; a job whose bytes do not decode ends with no
\* invocation, no reply and no change of the reactors, the controller, the
\* socket or the other jobs.
C8_DecodeFailureIsolation ==
    /\ [](\A h \in handled :
            /\ WellFormed(h.id)
            /\ from_bytes(h.buf).ok /\ h.msg = from_bytes(h.buf).packet
            /\ h.nth = 1)
    /\ [][\A r \in Runs :
            (/\ queue[r] # <<>>
             /\ ~from_bytes(Head(queue[r]).buf).ok
             /\ queue'[r] = Tail(queue[r]))
            => UNCHANGED <<handled, replies, busy, poolSize, sockbuf, sent,
                           ctlVars, thrVars>>]_vars

\* A malformed datagram, then a well-formed one: both are done with, the
\* reactor runs on, and the handler was invoked once, for the second.
C8_Witness ==
    /\ sent = 2 /\ ~WellFormed(1) /\ WellFormed(2)
    /\ sockbuf = <<>> /\ \A r \in Runs : queue[r] = <<>>
    /\ Cardinality(handled) = 1 /\ \A h \in handled : h.id = 2
    /\ event_sender = 1 /\ reactor[1] = "running"

\* C9: once the controller is dropped no reactor thread is alive and no
\* clone of the socket is open; the step that drops it leaves no sender.
C9_DropStops ==
    /\ [](ctl = "dropped" => (AliveRuns = {} /\ sockClones = {}))
    /\ [][(ctl = "alive" /\ ctl' = "dropped") => event_sender' = None]_vars

\* The controller was dropped while its run was active: the last call that
\* returned is the start, and its reactor has exited on the token.
C9_Witness ==
    /\ ctl = "dropped" /\ pc = "idle"
    /\ ret = Returned("handle", "Ok")
    /\ runs = 1 /\ reactor[1] = "exited"

\* C10: the worker count is DEFAULT_WORKER_NUM at first; the thread a
\* handle() spawns takes the worker count of that moment, and its pool has
\* that size for good; a change of the worker count changes nothing else.
C10_WorkerCountNextStart ==
    /\ worker_num = DEFAULT_WORKER_NUM
    /\ [][runs' = runs + 1 => captured'[runs'] = worker_num]_vars
    /\ [](\A r \in Runs : poolSize[r] # 0 => poolSize[r] = captured[r])
    /\ [][\A r \in Runs : poolSize[r] # 0 => poolSize'[r] = poolSize[r]]_vars
    /\ [][worker_num' # worker_num =>
            UNCHANGED <<ctl, pc, ret, event_sender, event_thread, joinee,
                        thrVars, poolVars, netVars>>]_vars

\* The worker count was changed while the run was active: the running pool
\* has the default size and the controller's worker count is another.
C10_Witness ==
    /\ Started
    /\ reactor[event_sender] = "running"
    /\ poolSize[event_sender] = DEFAULT_WORKER_NUM
    /\ worker_num = 1

\* A handle() that waited in rx.recv() returns in this step.
HandleWaitOver == pc = "handle_recv" /\ pc' = "idle"

\* C11: when the thread ends before it has signalled, rx.recv() fails and
\* handle() returns EventLoopError; a handle() that returns EventLoopError or
\* NetworkError installs no sender and no thread and leaves the caller idle
\* (NetworkError without a thread spawned); and while the last call is such
\* a failed handle() the controller holds no sender, so that the arm of
\* AnotherHandlerIsRunning cannot be taken.
C11_StartFailureLeavesIdle ==
    /\ [][(HandleWaitOver /\ rx = "closed") =>
            /\ reactor[runs] = "panicked"
            /\ ret' = Returned("handle", "EventLoopError")
            /\ event_sender' = None /\ event_thread' = None]_vars
    /\ [][HandleReturns("EventLoopError") => (HandleWaitOver /\ rx = "closed")]_vars
    /\ [][HandleReturns("NetworkError") =>
            /\ pc = "idle" /\ pc' = "idle"
            /\ event_sender' = None /\ event_thread' = None
            /\ UNCHANGED <<thrVars, poolVars>>]_vars
    /\ [](((ret = Returned("handle", "EventLoopError")
             \/ ret = Returned("handle", "NetworkError")) /\ pc = "idle") =>
            /\ event_sender = None /\ event_thread = None
            /\ ~ENABLED HandleRejected)

\* The first start failed with the thread panicking in its set-up, and the
\* start after it was accepted and returned Ok.
C11_Witness ==
    /\ runs = 2
    /\ reactor[1] = "panicked" /\ poolSize[1] = 0
    /\ reactor[2] = "running" /\ event_sender = 2
    /\ ret = Returned("handle", "Ok")

\* C12: every invocation of the handler has the responder of the peer that
\* sent its datagram and the message decoded from the bytes that datagram
\* was sent with; every reply goes to the peer whose message it echoes.
C12_ResponderBoundToSource ==
    /\ \A h \in handled :
          /\ h.peer = SrcOf(h.id)
          /\ h.buf = Truncate(wire[h.id])
          /\ h.msg = from_bytes(wire[h.id]).packet
    /\ \A r \in Runs : \A job \in busy[r] :
          job.src = SrcOf(job.id) /\ job.buf = Truncate(wire[job.id])
    /\ \A rep \in replies : \E h \in handled :
          /\ rep.to = SrcOf(h.id)
          /\ rep.payload = from_bytes(wire[h.id]).packet.opt

\* Two datagrams of different peers are in their handlers at once, and then
\* one of them has been answered.
C12_Witness ==
    \E r \in Runs :
        /\ \E h1, h2 \in handled : h1.run = r /\ h2.run = r /\ h1.peer # h2.peer
        /\ Cardinality(busy[r]) = 1
        /\ Cardinality(replies) = 1

\* The state of the run, as the controller has it.
Lifecycle ==
    CASE pc = "handle_recv" -> "Starting"
      [] pc \in {"stop_join", "drop_join"} -> "Stopping"
      [] pc = "idle" /\ ctl = "alive" /\ event_sender # None -> "Running"
      [] OTHER -> "Idle"

\* C13: the state of the run changes only from Idle to Starting, from
\* Starting to Running (the signal was received) or back to Idle (it was
\* not), from Running to Stopping and from Stopping to Idle, and Stopping is
\* left only when the joined thread has ended.
C13_LifecycleTransitions ==
    [][Lifecycle' # Lifecycle =>
         /\ <<Lifecycle, Lifecycle'>> \in
               {<<"Idle", "Starting">>, <<"Starting", "Running">>,
                <<"Starting", "Idle">>, <<"Running", "Stopping">>,
                <<"Stopping", "Idle">>}
         /\ <<Lifecycle, Lifecycle'>> = <<"Starting", "Running">> => rx = "sent"
         /\ <<Lifecycle, Lifecycle'>> = <<"Starting", "Idle">> => rx = "closed"
         /\ Lifecycle = "Stopping" => reactor[joinee] \in Dead]_vars

\* A run went through the whole cycle and the next one is starting.
C13_Witness ==
    /\ Lifecycle = "Starting"
    /\ runs = 2 /\ reactor[1] = "exited" /\ poolSize[1] >= 1

\* C14: a ready() whose recv_from finds no datagram (Ok(None)) submits no
\* job and leaves the reactor running.
C14_NoDatagramIsNoOp ==
    [][\A r \in Runs :
         ReactorReadyPanic(r, "None") =>
             reactor'[r] = "running" /\ queue' = queue]_vars

\* C15: a reactor that has been running ends only in a step that receives
\* the token stop() or drop sent to it.
C15_TokenOnlyExit ==
    [][\A r \in Runs :
         (reactor[r] = "running" /\ reactor'[r] \in Dead) => notified[r]]_vars

\* C16: whatever the workers do, a running reactor with a datagram in the
\* socket can read it and submit its job, and a running reactor that was
\* sent the token can receive it; a submission changes no worker and makes
\* the queue one longer.
C16_ReactorNeverWaits ==
    /\ [](\A r \in Runs :
            /\ (reactor[r] = "running" /\ sockbuf # <<>>) => ENABLED ReactorReady(r)
            /\ (reactor[r] = "running" /\ notified[r]) => ENABLED ReactorNotify(r))
    /\ [][\A r \in Runs :
            Len(queue'[r]) > Len(queue[r]) =>
                /\ Len(queue'[r]) = Len(queue[r]) + 1
                /\ Len(sockbuf') = Len(sockbuf) - 1
                /\ reactor[r] = "running" /\ reactor'[r] = "running"
                /\ busy' = busy]_vars

\* Every worker of the run is in a handler, and the reactor has read a
\* further datagram, whose job waits, and has been sent the token.
C16_Witness ==
    \E r \in Runs :
        /\ reactor[r] = "running" /\ notified[r]
        /\ poolSize[r] >= 1 /\ Cardinality(busy[r]) = poolSize[r]
        /\ queue[r] # <<>>

\* C17: with the reactor thread scheduled fairly, and the workers not, a
\* stop() that waits in join() returns.
C17_StopReturnsWithoutWorkers == (pc = "stop_join") ~> (pc = "idle")

\* stop() has returned Ok while a worker of the stopped run is still in its
\* handler and a job of that run is still queued.
C17_Witness ==
    /\ ret = Returned("stop", "Ok") /\ pc = "idle" /\ ctl = "alive"
    /\ \E r \in Runs :
          reactor[r] = "exited" /\ busy[r] # {} /\ queue[r] # <<>>

\* The places where datagram n or its job is: the socket's queue, the queues
\* of the pools, the workers.
Places(n) ==
    Cardinality({i \in 1..Len(sockbuf) : sockbuf[i].id = n})
    + Cardinality({s \in Runs \X (1..sent) :
                     s[2] <= Len(queue[s[1]]) /\ queue[s[1]][s[2]].id = n})
    + Cardinality({r \in Runs : \E job \in busy[r] : job.id = n})

\* C18: a datagram is in one place at most (the socket, one pool's queue,
\* one worker), its job carries the bytes and the source of that datagram
\* and runs in the pool of the reactor that read it, and the handler is
\* invoked once at most for it, after it has left the socket and the queue.
C18_OneTaskPerDatagram ==
    \A n \in 1..sent :
        /\ Places(n) <= 1
        /\ Invocations(n) <= 1
        /\ \A h \in handled :
              h.id = n => /\ h.nth = 1 /\ h.by = h.run
                          /\ h.buf = Truncate(wire[n])
                          /\ Executed(n)
        /\ \A r \in Runs :
              /\ \A job \in busy[r] :
                    job.id = n => job.by = r /\ Invocations(n) = 1
              /\ \A i \in 1..Len(queue[r]) :
                    queue[r][i].id = n =>
                        /\ queue[r][i].by = r
                        /\ queue[r][i].buf = Truncate(wire[n])
                        /\ Invocations(n) = 0

\* Several datagrams were sent, and each was handled once and answered.
C18_Witness ==
    /\ sent >= 2
    /\ \A n \in 1..sent : Invocations(n) = 1
    /\ Cardinality(replies) = sent

\* C19: a pool has the size that was the controller's worker_num when its
\* run was started, no more jobs of a run are in handlers than that, and a
\* job enters a handler only from the head of the queue and when a worker
\* is free.
C19_BoundedConcurrency ==
    /\ [](\A r \in Runs :
            /\ poolSize[r] \in {0, captured[r]}
            /\ Cardinality(busy[r]) <= captured[r])
    /\ [][\A r \in Runs :
            (busy'[r] # busy[r] /\ busy[r] \subseteq busy'[r]) =>
                /\ Cardinality(busy[r]) < captured[r]
                /\ queue[r] # <<>>
                /\ busy'[r] = busy[r] \cup {Head(queue[r])}]_vars

\* A job submitted later has been answered while a job submitted before it to
\* the same pool is still in its handler.
C19_Witness ==
    \E r \in Runs : \E job \in busy[r] : \E h \in handled :
        /\ h.run = r /\ h.id > job.id
        /\ \A j2 \in busy[r] : j2.id # h.id
        /\ \E rep \in replies : rep.payload = h.id

\* C20: while the controller holds a sender, the reactor thread of that run
\* is running.
C20_HandleImpliesReactorAlive ==
    event_sender # None => reactor[event_sender] = "running"

====
